---- MODULE Spec2Model ----
(***************************************************************************)
(* A model of xdag's Dag<NodeId, NodeData, EdgeData> (src/src/lib.rs):     *)
(* the node map, the forward index `edges`, the backward index             *)
(* `back_edges`, and the four mutating operations insert_node,             *)
(* insert_edge, remove_edge and remove_node.  Every operation is one       *)
(* atomic action (the container is single-threaded, &mut self).            *)
(*                                                                         *)
(* BTreeMap<K, V> is a function whose DOMAIN is the key set, BTreeSet<K>   *)
(* a set, Option<T> a sequence of length 0 (None) or 1 (Some), Vec<T> a    *)
(* sequence.  Iteration over a BTreeMap / BTreeSet is in ascending key     *)
(* order.  A panic (unreachable!) stops the program: `panicked` becomes    *)
(* TRUE, the container keeps what the handler had written so far, and no   *)
(* further operation runs.                                                 *)
(***************************************************************************)
EXTENDS Integers, Sequences, FiniteSets, TLC

\* ---------------------------------------------------------------- bounds
MaxNodeId == 3
MaxNodeData == 1
MaxEdgeData == 2

\* the payloads of the specification that varies node payloads (NodeSpec)
MaxWideNodeData == 2
MaxNarrowEdgeData == 1

NodeIds == 1..MaxNodeId
NodeDatas == 1..MaxNodeData
EdgeDatas == 1..MaxEdgeData

VARIABLES nodes, edges, back_edges, panicked, last, pre

\* the locals of a running in_cycle call: its stack and visited set, the
\* number of pops so far, and its return value (None while it runs)
VARIABLES cur_stack, cur_visited, pops, returned

vars == <<nodes, edges, back_edges, panicked, last, pre, cur_stack, cur_visited, pops, returned>>

\* ------------------------------------------------------- std collections
None == <<>>
Some(x) == <<x>>

\* BTreeMap::insert / BTreeMap::remove / BTreeMap::get
MapInsert(m, k, v) == [x \in (DOMAIN m) \cup {k} |-> IF x = k THEN v ELSE m[x]]
MapRemove(m, k) == [x \in (DOMAIN m) \ {k} |-> m[x]]
MapGet(m, k) == IF k \in DOMAIN m THEN Some(m[k]) ELSE None

\* the ascending iteration order of a BTreeMap's keys / a BTreeSet
RECURSIVE Ascending(_)
Ascending(S) ==
    IF S = {} THEN <<>>
    ELSE LET m == CHOOSE x \in S : \A y \in S : x <= y
         IN <<m>> \o Ascending(S \ {m})

\* ------------------------------------------------------------ results
NoRes == [tag |-> "None", id |-> 0, from |-> 0, to |-> 0, val |-> None, list |-> <<>>]
Ok(v) == [NoRes EXCEPT !.tag = "Ok", !.val = v]
NodeNotFound(i) == [NoRes EXCEPT !.tag = "NodeNotFound", !.id = i]
HasCycle(f, t, d) == [NoRes EXCEPT !.tag = "HasCycle", !.from = f, !.to = t, !.val = Some(d)]
Ret(v, l) == [NoRes EXCEPT !.tag = "Ret", !.val = v, !.list = l]
Panic == [NoRes EXCEPT !.tag = "Panic"]

\* ------------------------------------------------------------- the Dag
Dag == [nodes |-> nodes, edges |-> edges, back_edges |-> back_edges]
new == [nodes |-> <<>>, edges |-> <<>>, back_edges |-> <<>>]

contains_node(d, node_id) == node_id \in DOMAIN d.nodes

contains_edge(d, from, to) ==
    IF from \in DOMAIN d.edges THEN to \in DOMAIN d.edges[from] ELSE FALSE

\* the ids yielded by children(node_id) / parents(node_id), in order
children(d, node_id) ==
    IF node_id \in DOMAIN d.edges THEN Ascending(DOMAIN d.edges[node_id]) ELSE <<>>

parents(d, node_id) ==
    IF node_id \in DOMAIN d.back_edges THEN Ascending(d.back_edges[node_id]) ELSE <<>>

\* the loop of in_cycle: `stack` is the Vec (top = last element)
RECURSIVE in_cycle_loop(_, _, _)
in_cycle_loop(d, stack, visited) ==
    IF stack = <<>> THEN FALSE
    ELSE LET top == stack[Len(stack)]
             rest == SubSeq(stack, 1, Len(stack) - 1)
         IN IF top \in visited THEN TRUE
            ELSE in_cycle_loop(d, rest \o children(d, top), visited \cup {top})

\* in_cycle walking the backward index (parents) where the code walks children
RECURSIVE in_cycle_parents_loop(_, _, _)
in_cycle_parents_loop(d, stack, visited) ==
    IF stack = <<>> THEN FALSE
    ELSE LET top == stack[Len(stack)]
             rest == SubSeq(stack, 1, Len(stack) - 1)
         IN IF top \in visited THEN TRUE
            ELSE in_cycle_parents_loop(d, rest \o parents(d, top), visited \cup {top})

in_cycle_parents(d, node_id) == in_cycle_parents_loop(d, <<node_id>>, {})

\* in_cycle that does not push a node found among its own children
RECURSIVE in_cycle_ignores_self_loop(_, _, _)
in_cycle_ignores_self_loop(d, stack, visited) ==
    IF stack = <<>> THEN FALSE
    ELSE LET top == stack[Len(stack)]
             rest == SubSeq(stack, 1, Len(stack) - 1)
         IN IF top \in visited THEN TRUE
            ELSE in_cycle_ignores_self_loop(
                     d, rest \o SelectSeq(children(d, top), LAMBDA c : c # top),
                     visited \cup {top})

in_cycle_ignores_self(d, node_id) == in_cycle_ignores_self_loop(d, <<node_id>>, {})

in_cycle(d, node_id) == in_cycle_loop(d, <<node_id>>, {})

\* insert_node that installs empty index entries without testing for the key
insert_node_resets_edges(d, node_id, node_data) ==
    [dag |-> [nodes |-> MapInsert(d.nodes, node_id, node_data),
              edges |-> MapInsert(d.edges, node_id, <<>>),
              back_edges |-> MapInsert(d.back_edges, node_id, {})],
     res |-> Ret(MapGet(d.nodes, node_id), <<>>)]

insert_node(d, node_id, node_data) ==
    LET e1 == IF node_id \notin DOMAIN d.edges
              THEN MapInsert(d.edges, node_id, <<>>) ELSE d.edges
        b1 == IF node_id \notin DOMAIN d.back_edges
              THEN MapInsert(d.back_edges, node_id, {}) ELSE d.back_edges
    IN [dag |-> [nodes |-> MapInsert(d.nodes, node_id, node_data),
                 edges |-> e1, back_edges |-> b1],
        res |-> Ret(MapGet(d.nodes, node_id), <<>>)]

\* insert_edge whose HasCycle error carries the payload stored before the call
insert_edge_returns_old(d, from, to, edge_data) ==
    IF from \notin DOMAIN d.nodes THEN [dag |-> d, res |-> NodeNotFound(from)]
    ELSE IF to \notin DOMAIN d.nodes THEN [dag |-> d, res |-> NodeNotFound(to)]
    ELSE IF from \notin DOMAIN d.edges THEN [dag |-> d, res |-> Panic]
    ELSE LET result == MapGet(d.edges[from], to)
             d1 == [d EXCEPT !.edges[from] = MapInsert(@, to, edge_data)]
         IN IF in_cycle(d1, from)
            THEN [dag |-> [d1 EXCEPT !.edges[from] = MapRemove(@, to)],
                  res |-> HasCycle(from, to,
                                   IF result = None THEN edge_data ELSE result[1])]
            ELSE IF to \notin DOMAIN d1.back_edges THEN [dag |-> d1, res |-> Panic]
            ELSE [dag |-> [d1 EXCEPT !.back_edges[to] = @ \cup {from}],
                  res |-> Ok(result)]

\* insert_edge that never records `from` in the backward index
insert_edge_no_back_edge(d, from, to, edge_data) ==
    IF from \notin DOMAIN d.nodes THEN [dag |-> d, res |-> NodeNotFound(from)]
    ELSE IF to \notin DOMAIN d.nodes THEN [dag |-> d, res |-> NodeNotFound(to)]
    ELSE IF from \notin DOMAIN d.edges THEN [dag |-> d, res |-> Panic]
    ELSE LET result == MapGet(d.edges[from], to)
             d1 == [d EXCEPT !.edges[from] = MapInsert(@, to, edge_data)]
         IN IF in_cycle(d1, from)
            THEN [dag |-> [d1 EXCEPT !.edges[from] = MapRemove(@, to)],
                  res |-> HasCycle(from, to, d1.edges[from][to])]
            ELSE [dag |-> d1, res |-> Ok(result)]

\* insert_edge that records the backward entry before the cycle check
insert_edge_back_edge_first(d, from, to, edge_data) ==
    IF from \notin DOMAIN d.nodes THEN [dag |-> d, res |-> NodeNotFound(from)]
    ELSE IF to \notin DOMAIN d.nodes THEN [dag |-> d, res |-> NodeNotFound(to)]
    ELSE IF from \notin DOMAIN d.edges THEN [dag |-> d, res |-> Panic]
    ELSE IF to \notin DOMAIN d.back_edges THEN [dag |-> d, res |-> Panic]
    ELSE LET result == MapGet(d.edges[from], to)
             d1 == [d EXCEPT !.edges[from] = MapInsert(@, to, edge_data),
                             !.back_edges[to] = @ \cup {from}]
         IN IF in_cycle(d1, from)
            THEN [dag |-> [d1 EXCEPT !.edges[from] = MapRemove(@, to)],
                  res |-> HasCycle(from, to, d1.edges[from][to])]
            ELSE [dag |-> d1, res |-> Ok(result)]

insert_edge(d, from, to, edge_data) ==
    IF from \notin DOMAIN d.nodes THEN [dag |-> d, res |-> NodeNotFound(from)]
    ELSE IF to \notin DOMAIN d.nodes THEN [dag |-> d, res |-> NodeNotFound(to)]
    ELSE IF from \notin DOMAIN d.edges THEN [dag |-> d, res |-> Panic]
    ELSE LET result == MapGet(d.edges[from], to)
             d1 == [d EXCEPT !.edges[from] = MapInsert(@, to, edge_data)]
         IN IF in_cycle(d1, from)
            THEN \* roll back: remove that edge
                 [dag |-> [d1 EXCEPT !.edges[from] = MapRemove(@, to)],
                  res |-> HasCycle(from, to, d1.edges[from][to])]
            ELSE IF to \notin DOMAIN d1.back_edges THEN [dag |-> d1, res |-> Panic]
            ELSE [dag |-> [d1 EXCEPT !.back_edges[to] = @ \cup {from}],
                  res |-> Ok(result)]

\* remove_edge whose second check reports `from` where the code reports `to`
remove_edge_reports_from(d, from, to) ==
    IF from \notin DOMAIN d.nodes THEN [dag |-> d, res |-> NodeNotFound(from)]
    ELSE IF to \notin DOMAIN d.nodes THEN [dag |-> d, res |-> NodeNotFound(from)]
    ELSE IF from \notin DOMAIN d.edges THEN [dag |-> d, res |-> Panic]
    ELSE LET result == MapGet(d.edges[from], to)
             d1 == [d EXCEPT !.edges[from] = MapRemove(@, to)]
         IN IF to \notin DOMAIN d1.back_edges THEN [dag |-> d1, res |-> Panic]
            ELSE [dag |-> [d1 EXCEPT !.back_edges[to] = @ \ {from}],
                  res |-> Ok(result)]

remove_edge(d, from, to) ==
    IF from \notin DOMAIN d.nodes THEN [dag |-> d, res |-> NodeNotFound(from)]
    ELSE IF to \notin DOMAIN d.nodes THEN [dag |-> d, res |-> NodeNotFound(to)]
    ELSE IF from \notin DOMAIN d.edges THEN [dag |-> d, res |-> Panic]
    ELSE LET result == MapGet(d.edges[from], to)
             d1 == [d EXCEPT !.edges[from] = MapRemove(@, to)]
         IN IF to \notin DOMAIN d1.back_edges THEN [dag |-> d1, res |-> Panic]
            ELSE [dag |-> [d1 EXCEPT !.back_edges[to] = @ \ {from}],
                  res |-> Ok(result)]

\* the two loops of remove_node; `ids` is the collected Vec still to visit
RECURSIVE remove_children_edges(_, _, _, _)
remove_children_edges(d, node_id, ids, edge_datas) ==
    IF ids = <<>> THEN [dag |-> d, list |-> edge_datas, panic |-> FALSE]
    ELSE LET r == remove_edge(d, node_id, Head(ids))
         IN IF r.res.tag # "Ok" \/ r.res.val = None
            THEN [dag |-> r.dag, list |-> edge_datas, panic |-> TRUE]
            ELSE remove_children_edges(r.dag, node_id, Tail(ids),
                                       Append(edge_datas, r.res.val[1]))

RECURSIVE remove_parents_edges(_, _, _, _)
remove_parents_edges(d, node_id, ids, edge_datas) ==
    IF ids = <<>> THEN [dag |-> d, list |-> edge_datas, panic |-> FALSE]
    ELSE LET r == remove_edge(d, Head(ids), node_id)
         IN IF r.res.tag # "Ok" \/ r.res.val = None
            THEN [dag |-> r.dag, list |-> edge_datas, panic |-> TRUE]
            ELSE remove_parents_edges(r.dag, node_id, Tail(ids),
                                      Append(edge_datas, r.res.val[1]))

\* remove_node without the loop over the parents
remove_node_children_only(d, node_id) ==
    IF ~contains_node(d, node_id) THEN [dag |-> d, res |-> Ret(None, <<>>)]
    ELSE LET c == remove_children_edges(d, node_id, children(d, node_id), <<>>)
         IN IF c.panic THEN [dag |-> c.dag, res |-> Panic]
            ELSE [dag |-> [c.dag EXCEPT !.nodes = MapRemove(@, node_id)],
                  res |-> Ret(MapGet(c.dag.nodes, node_id), c.list)]

remove_node(d, node_id) ==
    IF ~contains_node(d, node_id) THEN [dag |-> d, res |-> Ret(None, <<>>)]
    ELSE LET c == remove_children_edges(d, node_id, children(d, node_id), <<>>)
         IN IF c.panic THEN [dag |-> c.dag, res |-> Panic]
            ELSE LET p == remove_parents_edges(c.dag, node_id,
                                               parents(c.dag, node_id), c.list)
                 IN IF p.panic THEN [dag |-> p.dag, res |-> Panic]
                    ELSE [dag |-> [p.dag EXCEPT !.nodes = MapRemove(@, node_id)],
                          res |-> Ret(MapGet(p.dag.nodes, node_id), p.list)]

\* read-only surface
roots(d) == {id \in DOMAIN d.nodes : Len(parents(d, id)) = 0}
leaves(d) == {id \in DOMAIN d.nodes : Len(children(d, id)) = 0}

\* get_edge as lenient as contains_edge: an absent endpoint yields Ok(None)
get_node(d, node_id) == MapGet(d.nodes, node_id)

get_edge_lenient(d, from, to) ==
    IF from \notin DOMAIN d.edges THEN Ok(None)
    ELSE Ok(MapGet(d.edges[from], to))

get_edge(d, from, to) ==
    IF from \notin DOMAIN d.nodes THEN NodeNotFound(from)
    ELSE IF to \notin DOMAIN d.nodes THEN NodeNotFound(to)
    ELSE IF from \notin DOMAIN d.edges THEN Panic
    ELSE Ok(MapGet(d.edges[from], to))

\* ------------------------------------------------------------- actions
\* a call of `op` with arguments (a, b, data) that produced r
Call(op, a, b, data, r) ==
    /\ ~panicked
    /\ nodes' = r.dag.nodes
    /\ edges' = r.dag.edges
    /\ back_edges' = r.dag.back_edges
    /\ panicked' = (r.res.tag = "Panic")
    /\ last' = [op |-> op, a |-> a, b |-> b, data |-> data, res |-> r.res]
    /\ pre' = Dag
    /\ UNCHANGED <<cur_stack, cur_visited, pops, returned>>

Init ==
    /\ nodes = new.nodes
    /\ edges = new.edges
    /\ back_edges = new.back_edges
    /\ panicked = FALSE
    /\ last = [op |-> "new", a |-> 0, b |-> 0, data |-> 0, res |-> NoRes]
    /\ pre = new
    /\ cur_stack = <<>>
    /\ cur_visited = {}
    /\ pops = 0
    /\ returned = None

InsertNode ==
    \E node_id \in NodeIds, node_data \in NodeDatas :
        Call("insert_node", node_id, 0, node_data, insert_node(Dag, node_id, node_data))

InsertEdge ==
    \E from \in NodeIds, to \in NodeIds, edge_data \in EdgeDatas :
        Call("insert_edge", from, to, edge_data, insert_edge(Dag, from, to, edge_data))

RemoveEdge ==
    \E from \in NodeIds, to \in NodeIds :
        Call("remove_edge", from, to, 0, remove_edge(Dag, from, to))

RemoveNode ==
    \E node_id \in NodeIds :
        Call("remove_node", node_id, 0, 0, remove_node(Dag, node_id))

GetEdge ==
    \E from \in NodeIds, to \in NodeIds :
        Call("get_edge", from, to, 0, [dag |-> Dag, res |-> get_edge(Dag, from, to)])

Next == InsertNode \/ InsertEdge \/ RemoveEdge \/ RemoveNode \/ GetEdge

Spec == Init /\ [][Next]_vars

\* the same operations with two node payloads and one edge payload
InsertNodeWide ==
    \E node_id \in NodeIds, node_data \in 1..MaxWideNodeData :
        Call("insert_node", node_id, 0, node_data, insert_node(Dag, node_id, node_data))

InsertEdgeNarrow ==
    \E from \in NodeIds, to \in NodeIds, edge_data \in 1..MaxNarrowEdgeData :
        Call("insert_edge", from, to, edge_data, insert_edge(Dag, from, to, edge_data))

NodeNext == InsertNodeWide \/ InsertEdgeNarrow \/ RemoveEdge \/ RemoveNode

NodeSpec == Init /\ [][NodeNext]_vars

\* ------------------------------------------- in_cycle, step by step
\* an in_cycle call that has not returned performs at most MaxPops pops
MaxPops == MaxNodeId + 2

\* one iteration of the while loop of in_cycle without visited.insert(top)
in_cycle_iteration_no_mark(d, stk, vis) ==
    LET top == stk[Len(stk)]
        rest == SubSeq(stk, 1, Len(stk) - 1)
    IN IF top \in vis
       THEN [stack |-> rest, visited |-> vis, ret |-> Some(TRUE)]
       ELSE [stack |-> rest \o children(d, top), visited |-> vis, ret |-> None]

\* one iteration of the while loop of in_cycle: pop, test, mark, push children
in_cycle_iteration(d, stk, vis) ==
    LET top == stk[Len(stk)]
        rest == SubSeq(stk, 1, Len(stk) - 1)
    IN IF top \in vis
       THEN [stack |-> rest, visited |-> vis, ret |-> Some(TRUE)]
       ELSE [stack |-> rest \o children(d, top), visited |-> vis \cup {top},
             ret |-> None]

\* in_cycle(node_id) is entered on an arbitrary forward index, cyclic or not,
\* whose targets need not be keys
CycleInit ==
    /\ nodes = new.nodes
    /\ back_edges = new.back_edges
    /\ \E K \in SUBSET NodeIds :
          edges \in [K -> {[t \in T |-> 1] : T \in SUBSET NodeIds}]
    /\ panicked = FALSE
    /\ pre = new
    /\ \E node_id \in NodeIds :
          /\ last = [op |-> "in_cycle", a |-> node_id, b |-> 0, data |-> 0,
                     res |-> NoRes]
          /\ cur_stack = <<node_id>>
    /\ cur_visited = {}
    /\ pops = 0
    /\ returned = None

InCyclePop ==
    /\ returned = None
    /\ cur_stack # <<>>
    /\ pops < MaxPops
    /\ LET r == in_cycle_iteration(Dag, cur_stack, cur_visited)
       IN /\ cur_stack' = r.stack
          /\ cur_visited' = r.visited
          /\ returned' = r.ret
    /\ pops' = pops + 1
    /\ UNCHANGED <<nodes, edges, back_edges, panicked, last, pre>>

\* the stack is empty: the loop ends and in_cycle returns false
InCycleExit ==
    /\ returned = None
    /\ cur_stack = <<>>
    /\ returned' = Some(FALSE)
    /\ UNCHANGED <<nodes, edges, back_edges, panicked, last, pre, cur_stack, cur_visited, pops>>

CycleNext == InCyclePop \/ InCycleExit

\* the call runs to completion: straight-line sequential code
CycleSpec == CycleInit /\ [][CycleNext]_vars /\ WF_vars(CycleNext)

\* ------------------------------------------------- reference definitions
\* the edges of the forward index, as a set of pairs
EdgeSet(d) == UNION {{<<f, t>> : t \in DOMAIN d.edges[f]} : f \in DOMAIN d.edges}

\* the payload of the forward edge from -> to, as an Option
EdgeGet(d, from, to) ==
    IF from \in DOMAIN d.edges THEN MapGet(d.edges[from], to) ELSE None

InSeq(x, s) == \E i \in 1..Len(s) : s[i] = x

\* an independent reachability reference over the forward index
Succ(d, S) == UNION {DOMAIN d.edges[x] : x \in S \cap DOMAIN d.edges}

RECURSIVE Reach(_, _)
Reach(d, S) == LET T == S \cup Succ(d, S) IN IF T = S THEN S ELSE Reach(d, T)

\* the nodes reachable from n along one or more forward edges
ReachFrom(d, n) == Reach(d, Succ(d, {n}))

InsertEdgeReturned == last.op = "insert_edge" /\ ~panicked

\* ----------------------------------------------------------------- C1
\* C1: in every reachable state the forward index contains no cycle: no
\* node reaches itself along one or more forward edges (self-loops included).
Acyclicity == \A n \in NodeIds : n \notin ReachFrom(Dag, n)

\* an insert_edge that would have closed a cycle of length >= 2 was rejected
AcyclicityWitness ==
    /\ last.op = "insert_edge"
    /\ last.res.tag = "HasCycle"
    /\ last.a # last.b
    /\ last.a \in ReachFrom(pre, last.b)
    /\ Cardinality(EdgeSet(Dag)) >= 2

\* ----------------------------------------------------------------- C2
\* C2: whenever insert_edge returns Err(HasCycle) the container (node map,
\* forward index with every payload, backward index) equals its state before
\* the call; contains_edge(from, to) and get_edge(from, to) are unchanged.
RollbackAtomicity ==
    (last.op = "insert_edge" /\ last.res.tag = "HasCycle") =>
        /\ Dag = pre
        /\ contains_edge(Dag, last.a, last.b) = contains_edge(pre, last.a, last.b)
        /\ get_edge(Dag, last.a, last.b) = get_edge(pre, last.a, last.b)

\* ----------------------------------------------------------------- C3
\* C3: in every reachable state, contains_edge(from, to) holds iff from is
\* yielded by parents(to).
MirrorConsistency ==
    \A from \in NodeIds, to \in NodeIds :
        contains_edge(Dag, from, to) <=> InSeq(from, parents(Dag, to))

\* ----------------------------------------------------------------- C4
\* C4: with both endpoints in the node map, insert_edge returns
\* Err(HasCycle) iff the edge would close a cycle in the pre-call graph
\* (from = to, or from reachable from to), and Ok in every other case.
ExactRejection ==
    (/\ last.op = "insert_edge"
     /\ last.a \in DOMAIN pre.nodes
     /\ last.b \in DOMAIN pre.nodes) =>
        IF last.a = last.b \/ last.a \in ReachFrom(pre, last.b)
        THEN last.res.tag = "HasCycle"
        ELSE last.res.tag = "Ok"

\* ----------------------------------------------------------------- C5
\* C5: no sequence of public operations reaches an unreachable!() assertion;
\* in particular remove_node never panics.
NoInternalFault == ~panicked

\* ----------------------------------------------------------------- C6
\* C6: where an edge from -> to exists with payload A, insert_edge(from, to, B)
\* returns Ok(Some(A)), afterwards get_edge(from, to) = Ok(Some(B)), and the
\* set of edges is unchanged.
EdgeOverwrite ==
    (last.op = "insert_edge" /\ contains_edge(pre, last.a, last.b)) =>
        /\ last.res = Ok(Some(pre.edges[last.a][last.b]))
        /\ get_edge(Dag, last.a, last.b) = Ok(Some(last.data))
        /\ EdgeSet(Dag) = EdgeSet(pre)

\* ----------------------------------------------------------------- C7
\* C7: after remove_node(id) returns, contains_node(id) is false, no edge
\* touches id, and every other node and every edge not touching id is as
\* before the call.
CascadingRemoval ==
    (last.op = "remove_node" /\ last.res.tag = "Ret") =>
        /\ ~contains_node(Dag, last.a)
        /\ \A n \in NodeIds :
              ~contains_edge(Dag, n, last.a) /\ ~contains_edge(Dag, last.a, n)
        /\ \A n \in NodeIds \ {last.a} :
              MapGet(nodes, n) = MapGet(pre.nodes, n)
        /\ \A f \in NodeIds \ {last.a}, t \in NodeIds \ {last.a} :
              EdgeGet(Dag, f, t) = EdgeGet(pre, f, t)

\* remove_node returned for a node that had a parent and a child, next to
\* an edge that does not touch it
CascadingRemovalWitness ==
    /\ last.op = "remove_node"
    /\ last.res.tag = "Ret"
    /\ contains_node(pre, last.a)
    /\ \E p \in NodeIds, c \in NodeIds :
          /\ contains_edge(pre, p, last.a)
          /\ contains_edge(pre, last.a, c)
          /\ contains_edge(Dag, p, c)

\* ----------------------------------------------------------------- C8
\* C8: remove_edge(from, to) with both endpoints in the node map and no edge
\* from -> to returns Ok(None) and leaves the whole container unchanged;
\* remove_edge twice in a row yields the same state as once.
IdempotentRemoveEdge ==
    /\ (/\ last.op = "remove_edge"
        /\ last.a \in DOMAIN pre.nodes
        /\ last.b \in DOMAIN pre.nodes
        /\ ~contains_edge(pre, last.a, last.b)) =>
            (last.res = Ok(None) /\ Dag = pre)
    /\ (last.op = "remove_edge" /\ ~panicked) =>
            remove_edge(Dag, last.a, last.b).dag = Dag

\* ----------------------------------------------------------------- C9
\* C9: insert_edge and remove_edge return Err(NodeNotFound(from)) when from
\* is not in the node map (also when to is absent too), Err(NodeNotFound(to))
\* when from is present and to is absent, and leave the container unchanged.
UnknownEndpoints ==
    (last.op \in {"insert_edge", "remove_edge"}) =>
        /\ last.a \notin DOMAIN pre.nodes =>
              (last.res = NodeNotFound(last.a) /\ Dag = pre)
        /\ (last.a \in DOMAIN pre.nodes /\ last.b \notin DOMAIN pre.nodes) =>
              (last.res = NodeNotFound(last.b) /\ Dag = pre)
        /\ (last.a \in DOMAIN pre.nodes /\ last.b \in DOMAIN pre.nodes) =>
              last.res.tag # "NodeNotFound"

\* insert_edge was called with from present and to absent, on a graph that
\* has an edge
UnknownEndpointsWitness ==
    /\ last.op = "insert_edge"
    /\ last.a \in DOMAIN pre.nodes
    /\ last.b \notin DOMAIN pre.nodes
    /\ last.res = NodeNotFound(last.b)
    /\ EdgeSet(pre) # {}

\* ---------------------------------------------------------------- C10
\* C10: in every reachable state roots() yields exactly the nodes of the
\* node map that have no incoming edge.
RootsCorrect ==
    \A n \in NodeIds :
        n \in roots(Dag) <=>
            (contains_node(Dag, n) /\ ~\E m \in NodeIds : contains_edge(Dag, m, n))

\* ---------------------------------------------------------------- C11
\* C11: whenever insert_edge(from, to, payload) returns Err(HasCycle(f, t, d)),
\* f = from, t = to and d is the payload passed to this call, not a payload
\* stored for that edge before.
HasCycleCarriesCall ==
    (last.op = "insert_edge" /\ last.res.tag = "HasCycle") =>
        last.res = HasCycle(last.a, last.b, last.data)

\* an overwrite with a different payload was rejected
HasCycleCarriesCallWitness ==
    /\ last.op = "insert_edge"
    /\ last.res.tag = "HasCycle"
    /\ contains_edge(pre, last.a, last.b)
    /\ pre.edges[last.a][last.b] # last.data

\* ---------------------------------------------------------------- C12
\* the payloads of the edges id -> c of the forward index, in ascending c,
\* and of the edges p -> id, in ascending p
OutgoingPayloads(d, id) ==
    LET cs == Ascending({c \in NodeIds : contains_edge(d, id, c)})
    IN [i \in 1..Len(cs) |-> d.edges[id][cs[i]]]

IncomingPayloads(d, id) ==
    LET ps == Ascending({p \in NodeIds : contains_edge(d, p, id)})
    IN [i \in 1..Len(ps) |-> d.edges[ps[i]][id]]

\* C12: for a present id remove_node(id) returns (Some(node payload), L), L
\* being the payloads of the outgoing edges in ascending child order followed
\* by those of the incoming edges in ascending parent order; for an absent id
\* it returns (None, empty) and changes nothing.
RemoveNodeResult ==
    (last.op = "remove_node") =>
        IF contains_node(pre, last.a)
        THEN last.res = Ret(Some(pre.nodes[last.a]),
                            OutgoingPayloads(pre, last.a) \o IncomingPayloads(pre, last.a))
        ELSE last.res = Ret(None, <<>>) /\ Dag = pre

\* ---------------------------------------------------------------- C13
\* C13: get_edge(from, to) returns Err(NodeNotFound) iff from or to is absent
\* from the node map (from reported first), and otherwise Ok(Some(p)) exactly
\* when contains_edge(from, to) holds and Ok(None) otherwise; contains_edge
\* yields a plain boolean and is false whenever an endpoint is absent.
StrictGetEdge ==
    /\ (last.op = "get_edge") =>
          /\ Dag = pre
          /\ ~contains_node(Dag, last.a) => last.res = NodeNotFound(last.a)
          /\ (contains_node(Dag, last.a) /\ ~contains_node(Dag, last.b)) =>
                last.res = NodeNotFound(last.b)
          /\ (contains_node(Dag, last.a) /\ contains_node(Dag, last.b)) =>
                IF contains_edge(Dag, last.a, last.b)
                THEN last.res = Ok(Some(edges[last.a][last.b]))
                ELSE last.res = Ok(None)
    /\ \A from \in NodeIds, to \in NodeIds :
          /\ contains_edge(Dag, from, to) \in BOOLEAN
          /\ (~contains_node(Dag, from) \/ ~contains_node(Dag, to)) =>
                ~contains_edge(Dag, from, to)

\* get_edge was called with `to` removed from a graph that still has an edge
\* and in which `to` is still a key of the forward index
StrictGetEdgeWitness ==
    /\ last.op = "get_edge"
    /\ contains_node(Dag, last.a)
    /\ ~contains_node(Dag, last.b)
    /\ last.b \in DOMAIN edges
    /\ EdgeSet(Dag) # {}

\* ---------------------------------------------------------------- C14
\* the members of the backward index entry of `to`
BackMembers(d, to) == IF to \in DOMAIN d.back_edges THEN d.back_edges[to] ELSE {}

\* C14: insert_node(id, d) returns the previous payload of id (None if id was
\* absent), afterwards get_node(id) = d, every forward edge with its payload
\* and every backward entry is as before, and an id that was absent before
\* the call has no children and no parents after it.
UpsertNode ==
    (last.op = "insert_node") =>
        /\ last.res = Ret(MapGet(pre.nodes, last.a), <<>>)
        /\ get_node(Dag, last.a) = Some(last.data)
        /\ \A f \in NodeIds, t \in NodeIds :
              /\ EdgeGet(Dag, f, t) = EdgeGet(pre, f, t)
              /\ (f \in BackMembers(Dag, t)) <=> (f \in BackMembers(pre, t))
        /\ ~contains_node(pre, last.a) =>
              (children(Dag, last.a) = <<>> /\ parents(Dag, last.a) = <<>>)

\* the payload of a node that has a child and a parent was replaced by a
\* different one
UpsertNodeWitness ==
    /\ last.op = "insert_node"
    /\ contains_node(pre, last.a)
    /\ pre.nodes[last.a] # last.data
    /\ children(Dag, last.a) # <<>>
    /\ parents(Dag, last.a) # <<>>

\* ---------------------------------------------------------------- C15
\* C15: after every public operation an identifier is a key of the node map
\* iff it is a key of both the forward and the backward index; after
\* remove_node(id) the identifier is a key of none of the three maps.
IndexKeyConsistency ==
    /\ \A id \in NodeIds :
          id \in DOMAIN nodes <=> (id \in DOMAIN edges /\ id \in DOMAIN back_edges)
    /\ (last.op = "remove_node" /\ ~panicked) =>
          /\ last.a \notin DOMAIN nodes
          /\ last.a \notin DOMAIN edges
          /\ last.a \notin DOMAIN back_edges

\* ---------------------------------------------------------------- C16
\* C16: in every reachable state both endpoints of every forward edge and of
\* every backward entry (from in backward_index[to]) are in the node map.
EdgeEndpointsExist ==
    \A from \in NodeIds, to \in NodeIds :
        (contains_edge(Dag, from, to) \/ from \in BackMembers(Dag, to)) =>
            (contains_node(Dag, from) /\ contains_node(Dag, to))

\* ---------------------------------------------------------------- C17
\* C17: for every node n of the node map insert_edge(n, n, payload) returns
\* Err(HasCycle(n, n, payload)); afterwards contains_edge(n, n) is false and
\* n is not yielded by parents(n).
SelfLoop ==
    (last.op = "insert_edge" /\ last.a = last.b /\ contains_node(pre, last.a)) =>
        /\ last.res = HasCycle(last.a, last.a, last.data)
        /\ ~contains_edge(Dag, last.a, last.a)
        /\ ~InSeq(last.a, parents(Dag, last.a))

\* a self-loop was tried on a node that has a child and a parent
SelfLoopWitness ==
    /\ last.op = "insert_edge"
    /\ last.a = last.b
    /\ contains_node(pre, last.a)
    /\ children(pre, last.a) # <<>>
    /\ parents(pre, last.a) # <<>>

\* ---------------------------------------------------------------- C18
\* C18: in every reachable state, whenever to is a key of forward_index[from],
\* from is a member of backward_index[to] and is yielded by parents(to).
ForwardMirrored ==
    \A from \in NodeIds, to \in NodeIds :
        contains_edge(Dag, from, to) =>
            (from \in BackMembers(Dag, to) /\ InSeq(from, parents(Dag, to)))

\* a graph with a forward edge in which the backward index is a strict
\* superset of the reversed forward index
ForwardMirroredWitness ==
    /\ EdgeSet(Dag) # {}
    /\ \E from \in NodeIds, to \in NodeIds :
          from \in BackMembers(Dag, to) /\ ~contains_edge(Dag, from, to)

\* ---------------------------------------------------------------- C19
\* C19: if insert_edge(from, to, _) returns Err(HasCycle) where
\* contains_edge(from, to) was false before the call, the node map, the
\* forward index and the backward index are as before the call.
NewEdgeRejectionNoOp ==
    (/\ last.op = "insert_edge"
     /\ last.res.tag = "HasCycle"
     /\ ~contains_edge(pre, last.a, last.b)) =>
        (nodes = pre.nodes /\ edges = pre.edges /\ back_edges = pre.back_edges)

\* a new edge between two distinct nodes was rejected
NewEdgeRejectionNoOpWitness ==
    /\ last.op = "insert_edge"
    /\ last.res.tag = "HasCycle"
    /\ ~contains_edge(pre, last.a, last.b)
    /\ last.a # last.b
    /\ EdgeSet(pre) # {}

\* ---------------------------------------------------------------- C20
\* C20: on every finite forward index, cyclic or not, and from every start
\* node the traversal of in_cycle eventually returns; every loop iteration
\* returns true or adds a node to the visited set that was not in it, so a
\* traversal that has not returned has made at most |nodes| + 1 pops.
InCycleTerminates ==
    /\ <>(returned # None)
    /\ [](pops <= Cardinality(cur_visited) + 1 /\ pops <= Cardinality(NodeIds) + 1)
    /\ [][\/ returned' = Some(TRUE)
          \/ (cur_visited \subseteq cur_visited' /\ cur_visited' # cur_visited)
          \/ (cur_stack = <<>> /\ returned' = Some(FALSE))]_vars

\* a traversal of a cyclic index returned true on pop number |nodes| + 1
InCycleTerminatesWitness ==
    /\ returned = Some(TRUE)
    /\ pops = Cardinality(NodeIds) + 1

====
